---- MODULE Spec2Model ----
(***************************************************************************)
(* Model of nemo.py: memory-dump readers (RawDump, CrashDump), the x86     *)
(* address translators (ArchX86, ArchX86PAE), the EPROCESS list walker     *)
(* (pslist) and the crash-to-raw converter (crash_to_raw).                 *)
(*                                                                         *)
(* A dump file is a byte array.  Its bytes are given by `cells` (bytes the *)
(* image generator placed explicitly: header fields, page-table entries,   *)
(* process records) over a background pattern Bg.  A byte string returned  *)
(* by file.read is the slice [off, off+n) of that array.                   *)
(*                                                                         *)
(* Addresses, positions and file offsets are 32-bit and wider quantities.  *)
(* Each is held as a pair <<pg, off>> standing for pg * 4096 + off with    *)
(* 0 <= off < 4096, so that no number of the model exceeds the range of    *)
(* the model checker's integers.  Lengths and indices are plain integers.  *)
(***************************************************************************)
EXTENDS Integers, Sequences, FiniteSets, TLC

VARIABLES
    kind,          \* "raw" (RawDump) or "crash" (CrashDump)
    arch,          \* "x86" (ArchX86) or "pae" (ArchX86PAE)
    cells,         \* file offset -> byte, the explicitly placed bytes
    fsize,         \* size of the dump file in bytes
    decl,          \* the runs the image was generated with: <<pageIndex, pageCount>>
    scn,           \* the synthetic layout the image was generated from
    filepos,       \* cursor of the file object self.mem
    dirbase,       \* AbstractDump.dirbase
    process_head,  \* AbstractDump.process_head
    ranges,        \* CrashDump.ranges: <<fpos, saddr, length>>
    res,           \* outcome of the last completed call
    probe,         \* history: the (pos, length) whose outcomes are compared
    probeOut,      \* history: outcome of the first read of `probe`
    pc,            \* position of the running pslist / crash_to_raw call
    next_ps,       \* pslist: next_ps.flink
    ret,           \* pslist: ret (list of decoded EProcess)
    raw,           \* crash_to_raw: chunks written to the raw file so far
    cfpos,         \* crash_to_raw: fpos
    ri,            \* crash_to_raw: index of the range being replayed
    pi             \* crash_to_raw: page index i inside the range

vars == <<kind, arch, cells, fsize, decl, scn, filepos, dirbase, process_head,
          ranges, res, probe, probeOut, pc, next_ps, ret, raw, cfpos, ri, pi>>

(***************************************************************************)
(* Bounds of the model.                                                    *)
(***************************************************************************)
MaxRuns      == 2    \* runs declared in a header
MaxPageIndex == 2    \* largest physicalPageIndex of a run
MaxPageCount == 2    \* largest pageCount of a run
MaxProcs     == 3    \* records of a process list
MaxName      == 3    \* leading bytes of an image-name field that vary

(***************************************************************************)
(* Program constants.                                                      *)
(***************************************************************************)
PageSize   == 4096
HeaderSize == 4096
OffDirBase == 16     \* 0x10
OffPsHead  == 28     \* 0x1c
OffRuns    == 100    \* 0x64

Pow2(n) == 2 ^ n
Min(a, b) == IF a < b THEN a ELSE b
Max(a, b) == IF a > b THEN a ELSE b

(***************************************************************************)
(* Arithmetic on addresses <<pg, off>>.                                    *)
(***************************************************************************)
Norm(pg, off) == <<pg + (off \div 4096), off % 4096>>

\* the address of a small integer
Addr(n) == Norm(0, n)

\* the integer of an address that is small enough
AInt(a) == a[1] * 4096 + a[2]

\* a + n, n an integer
AAdd(a, n) == Norm(a[1], a[2] + n)

APlus(a, b) == Norm(a[1] + b[1], a[2] + b[2])

AMinus(a, b) == Norm(a[1] - b[1], a[2] - b[2])

ALt(a, b) == a[1] < b[1] \/ (a[1] = b[1] /\ a[2] < b[2])

ALe(a, b) == a[1] < b[1] \/ (a[1] = b[1] /\ a[2] <= b[2])

\* a * 4096
APages(a) == <<a[1] * 4096 + a[2], 0>>

(***************************************************************************)
(* The file object.                                                        *)
(***************************************************************************)
\* background byte of the image at a file offset
Bg(off) == (off[2] * 7 + off[1] * 13 + 1) % 256

FileByteOf(c, off) == IF off \in DOMAIN c THEN c[off] ELSE Bg(off)

FileByte(off) == FileByteOf(cells, off)

\* file.read(length) with the cursor at fp on a file of `size` bytes: the
\* slice actually returned (short or empty at end of file)
FileReadOf(size, fp, length) ==
    [off |-> fp,
     n   |-> IF ALe(size, fp) THEN 0 ELSE Min(length, AInt(AMinus(size, fp)))]

\* byte i of a slice
SliceByteOf(c, s, i) == FileByteOf(c, AAdd(s.off, i))

\* file.seek(target) with the cursor at cur: the new cursor
SeekTo_keep(cur, target) == cur

SeekTo(cur, target) == target

\* struct "<L" unpack of a 4-byte slice (little endian): the value
\* b0 + 2^8 b1 + 2^16 b2 + 2^24 b3 as <<value \div 4096, value % 4096>>
UnpackU32Of(c, s) ==
    LET b0 == SliceByteOf(c, s, 0)
        b1 == SliceByteOf(c, s, 1)
        b2 == SliceByteOf(c, s, 2)
        b3 == SliceByteOf(c, s, 3)
    IN  <<(b1 \div 16) + 16 * b2 + 4096 * b3, b0 + 256 * (b1 % 16)>>

\* raw_header[a: a+4] of the 4096 header bytes read at construction
HeaderU32(c, a) == UnpackU32Of(c, [off |-> Addr(a), n |-> 4])

(***************************************************************************)
(* CrashDump.__init__: the extent table built from the run descriptors.    *)
(***************************************************************************)
FirstFpos == Addr(Pow2(12))

RECURSIVE BuildRanges(_, _, _, _)
BuildRanges(c, i, nruns, fpos) ==
    IF i > nruns THEN <<>>
    ELSE LET start_addr == APages(HeaderU32(c, OffRuns + i * 8))
             length     == APages(HeaderU32(c, OffRuns + i * 8 + 4))
         IN  <<[fpos |-> fpos, saddr |-> start_addr, length |-> length]>>
               \o BuildRanges(c, i + 1, nruns, APlus(fpos, length))

CrashRanges(c) ==
    BuildRanges(c, 1, AInt(HeaderU32(c, OffRuns)), FirstFpos)

(***************************************************************************)
(* CrashDump.read: the scan of self.ranges.                                *)
(*   hit  = "raise" : OutsideRangesException                               *)
(*   hit  = "break" : the loop left by break at index idx                  *)
(*   hit  = "end"   : the loop ran to its end, idx is the last index       *)
(***************************************************************************)
InRun(saddr, pos, rlength) == ALe(saddr, pos) /\ ALe(pos, APlus(saddr, rlength))

RECURSIVE ScanRanges(_, _, _)
ScanRanges(rs, i, pos) ==
    IF i > Len(rs) THEN [hit |-> "end", idx |-> Len(rs)]
    ELSE IF ALt(pos, rs[i].saddr) THEN [hit |-> "raise", idx |-> i]
    ELSE IF InRun(rs[i].saddr, pos, rs[i].length) THEN [hit |-> "break", idx |-> i]
    ELSE ScanRanges(rs, i + 1, pos)

TargetOffset_abs(fpos, pos, saddr) == APlus(fpos, pos)

TargetOffset(fpos, pos, saddr) == APlus(fpos, AMinus(pos, saddr))

\* outcome of dump.read(pos, length) with the cursor at fp:
\*   exc  : "none" or the exception raised
\*   off  : the offset given to seek (<<-1, 0>> when no seek was made)
\*   n    : the number of bytes returned
\*   fp   : the cursor afterwards
NoOff == <<-1, 0>>

NoRead(exc, fp) == [exc |-> exc, off |-> NoOff, n |-> 0, fp |-> fp]

DoRead(size, fp, target, length) ==
    IF target[1] < 0 THEN NoRead("OSError", fp)
    ELSE LET at == SeekTo(fp, target)
             s  == FileReadOf(size, at, length)
         IN  [exc |-> "none", off |-> s.off, n |-> s.n, fp |-> AAdd(at, s.n)]

RawDumpRead(size, fp, pos, length) == DoRead(size, fp, pos, length)

CrashDumpRead(rs, size, fp, pos, length) ==
    LET sc == ScanRanges(rs, 1, pos)
    IN  IF sc.hit = "raise" THEN NoRead("OutsideRangesException", fp)
        ELSE IF sc.idx = 0 THEN NoRead("UnboundLocalError", fp)
        ELSE DoRead(size, fp,
                    TargetOffset(rs[sc.idx].fpos, pos, rs[sc.idx].saddr), length)

DumpRead(k, rs, size, fp, pos, length) ==
    IF k = "raw" THEN RawDumpRead(size, fp, pos, length)
    ELSE CrashDumpRead(rs, size, fp, pos, length)

(***************************************************************************)
(* ArchX86 / ArchX86PAE: parse_vaddr and vtop.                             *)
(***************************************************************************)
\* x & m for the mask m whose set bits are the bits lo .. hi-1 (hi <= 32)
AndMask(x, lo, hi) ==
    <<(x[1] % Pow2(Max(hi, 12) - 12)) - (x[1] % Pow2(Max(lo, 12) - 12)),
      (x[2] % Pow2(Min(hi, 12))) - (x[2] % Pow2(Min(lo, 12)))>>

\* x >> n for n >= 12, an index
Shr(x, n) == x[1] \div Pow2(n - 12)

ParseVaddrX86(addr) ==
    [pdi  |-> Shr(AndMask(addr, 22, 32), 22),
     pti  |-> Shr(AndMask(addr, 12, 22), 12),
     offs |-> AndMask(addr, 0, 12)[2]]

ParseVaddrPAE(addr) ==
    [pdpi |-> Shr(AndMask(addr, 30, 32), 30),
     pdi  |-> Shr(AndMask(addr, 21, 30), 21),
     pti  |-> Shr(AndMask(addr, 12, 21), 12),
     offs |-> AndMask(addr, 0, 12)[2]]

\* entry & 0xfffff000
MaskPage_none(x) == x

MaskPage(x) == AndMask(x, 12, 32)

EntryAddrX86(base, idx) == AAdd(base, idx * 4)

EntryAddrPAE_dword(base, idx) == AAdd(base, idx * 4)

EntryAddrPAE(base, idx) == AAdd(base, idx * 8)

\* st.unpack(mem.read(pos, 4)): the exception of the read, struct.error on a
\* short read, or the value
EntryValue_swallow(c, r) ==
    IF r.exc = "none" /\ r.n = 4
    THEN [exc |-> "none", val |-> UnpackU32Of(c, [off |-> r.off, n |-> r.n])]
    ELSE [exc |-> "none", val |-> <<0, 0>>]

EntryValue(c, r) ==
    IF r.exc # "none" THEN [exc |-> r.exc, val |-> <<0, 0>>]
    ELSE IF r.n # 4 THEN [exc |-> "struct.error", val |-> <<0, 0>>]
    ELSE [exc |-> "none", val |-> UnpackU32Of(c, [off |-> r.off, n |-> r.n])]

\* outcome of a translation: exc, paddr (NoOff when it raised), the positions
\* of the 4-byte reads made, the cursor afterwards
VtopFail(exc, p, reads, fp) ==
    [exc |-> exc, paddr |-> NoOff, parts |-> p, reads |-> reads, fp |-> fp]

VtopX86(k, rs, size, c, fp, dbase, addr) ==
    LET p   == ParseVaddrX86(addr)
        a1  == EntryAddrX86(dbase, p.pdi)
        r1  == DumpRead(k, rs, size, fp, a1, 4)
        e1  == EntryValue(c, r1)
        pde == MaskPage(e1.val)
        a2  == EntryAddrX86(pde, p.pti)
        r2  == DumpRead(k, rs, size, r1.fp, a2, 4)
        e2  == EntryValue(c, r2)
        pte == MaskPage(e2.val)
    IN  IF e1.exc # "none" THEN VtopFail(e1.exc, p, <<a1>>, r1.fp)
        ELSE IF e2.exc # "none" THEN VtopFail(e2.exc, p, <<a1, a2>>, r2.fp)
        ELSE [exc |-> "none", paddr |-> AAdd(pte, p.offs), parts |-> p,
              reads |-> <<a1, a2>>, fp |-> r2.fp]

VtopPAE(k, rs, size, c, fp, dbase, addr) ==
    LET p    == ParseVaddrPAE(addr)
        a1   == EntryAddrPAE(dbase, p.pdpi)
        r1   == DumpRead(k, rs, size, fp, a1, 4)
        e1   == EntryValue(c, r1)
        pdpe == MaskPage(e1.val)
        a2   == EntryAddrPAE(pdpe, p.pdi)
        r2   == DumpRead(k, rs, size, r1.fp, a2, 4)
        e2   == EntryValue(c, r2)
        pde  == MaskPage(e2.val)
        a3   == EntryAddrPAE(pde, p.pti)
        r3   == DumpRead(k, rs, size, r2.fp, a3, 4)
        e3   == EntryValue(c, r3)
        pte  == MaskPage(e3.val)
    IN  IF e1.exc # "none" THEN VtopFail(e1.exc, p, <<a1>>, r1.fp)
        ELSE IF e2.exc # "none" THEN VtopFail(e2.exc, p, <<a1, a2>>, r2.fp)
        ELSE IF e3.exc # "none" THEN VtopFail(e3.exc, p, <<a1, a2, a3>>, r3.fp)
        ELSE [exc |-> "none", paddr |-> AAdd(pte, p.offs), parts |-> p,
              reads |-> <<a1, a2, a3>>, fp |-> r3.fp]

\* dump.vtop(addr): AbstractDump.vtop -> self.arch.vtop
DumpVtop(a, k, rs, size, c, fp, dbase, addr) ==
    IF a = "x86" THEN VtopX86(k, rs, size, c, fp, dbase, addr)
    ELSE VtopPAE(k, rs, size, c, fp, dbase, addr)

(***************************************************************************)
(* wintime, EProcess.__init__, ListEntry.__init__.                         *)
(***************************************************************************)
RecordSize == 728    \* EProcess.fullsize, 0x2d8
ListOff    == 184    \* 0xb8, active_process_links
PidOff     == 180    \* 0xb4
CreateOff  == 160    \* 0xa0
ExitOff    == 168    \* 0xa8
NameOff    == 364    \* 0x16c
NameLen    == 15

\* the first tick count whose date is past datetime.max, as two dwords:
\* (3067670 + 1) days * 864000000000 = 0x24c85a5e_d1c04000
TicksLimitHi == <<150661, 2654>>

TicksLimitLo == <<859140, 0>>

\* wintime(raw) raises OverflowError: datetime(1601, ...) + timedelta(days)
\* is out of range
WintimeRaises(c, s) ==
    LET lo == UnpackU32Of(c, [off |-> s.off, n |-> 4])
        hi == UnpackU32Of(c, [off |-> AAdd(s.off, 4), n |-> 4])
    IN  ALt(TicksLimitHi, hi) \/ (hi = TicksLimitHi /\ ALe(TicksLimitLo, lo))

RECURSIVE DropNuls_trailing(_)
DropNuls_trailing(b) ==
    IF b # <<>> /\ b[Len(b)] = 0
    THEN DropNuls_trailing(SubSeq(b, 1, Len(b) - 1)) ELSE b

\* image_name.replace(b"\x00", b"")
DropNuls(b) == SelectSeq(b, LAMBDA x : x # 0)

\* bytes.decode("ascii"): UnicodeDecodeError on a byte above 0x7f
DecodeAscii(b) ==
    IF \E i \in 1 .. Len(b) : b[i] > 127
    THEN [exc |-> "UnicodeDecodeError", text |-> <<>>]
    ELSE [exc |-> "none", text |-> b]

\* EProcess(rawdata, base_addr) for the slice s that dump.read returned
EProcess(c, s, base_addr) ==
    LET field == [i \in 1 .. NameLen |-> SliceByteOf(c, s, NameOff + i - 1)]
        name  == DecodeAscii(DropNuls(field))
        fail(e) == [exc |-> e, base_addr |-> base_addr]
    IN  IF s.n < NameOff + NameLen THEN fail("struct.error")
        ELSE IF name.exc # "none" THEN fail(name.exc)
        ELSE IF WintimeRaises(c, [off |-> AAdd(s.off, CreateOff), n |-> 8])
                \/ WintimeRaises(c, [off |-> AAdd(s.off, ExitOff), n |-> 8])
        THEN fail("OverflowError")
        ELSE [exc        |-> "none",
              base_addr  |-> base_addr,
              flink      |-> UnpackU32Of(c, [off |-> AAdd(s.off, ListOff), n |-> 4]),
              blink      |-> UnpackU32Of(c, [off |-> AAdd(s.off, ListOff + 4), n |-> 4]),
              image_name |-> name.text,
              pid        |-> UnpackU32Of(c, [off |-> AAdd(s.off, PidOff), n |-> 4])]

(***************************************************************************)
(* pslist.                                                                 *)
(***************************************************************************)
\* the loop test, negated: next_ps.flink != pslist_head
LoopEnds_base(flink, head) == AAdd(flink, -ListOff) = head

LoopEnds(flink, head) == flink = head

\* dump.vtop(next_ps.flink - 0xb8)
WalkReadPos_late(a, k, rs, size, c, fp, dbase, flink) ==
    LET t == DumpVtop(a, k, rs, size, c, fp, dbase, flink)
    IN  IF t.exc = "none" THEN [t EXCEPT !.paddr = AAdd(t.paddr, -ListOff)] ELSE t

WalkReadPos(a, k, rs, size, c, fp, dbase, flink) ==
    DumpVtop(a, k, rs, size, c, fp, dbase, AAdd(flink, -ListOff))

(***************************************************************************)
(* Dump images: the inputs.  A crash image is a 4096-byte header followed  *)
(* by the data of the declared runs, in order, and possibly further data.  *)
(***************************************************************************)
\* byte i of the little-endian encoding of the 32-bit value v
ByteOf(v, i) ==
    CASE i = 0 -> v[2] % 256
      [] i = 1 -> (v[2] \div 256) + 16 * (v[1] % 16)
      [] i = 2 -> (v[1] \div 16) % 256
      [] i = 3 -> (v[1] \div 4096) % 256

\* the four bytes of v stored at address base
WordCells(base, v) ==
    [o \in {AAdd(base, i) : i \in 0 .. 3} |-> ByteOf(v, AInt(AMinus(o, base)))]

RunCells(runs) ==
    [o \in {Addr(n) : n \in OffRuns + 8 .. OffRuns + 8 * (Len(runs) + 1) - 1} |->
        LET j == (AInt(o) - OffRuns) \div 8
            k == (AInt(o) - OffRuns) % 8
        IN  ByteOf(Addr(IF k < 4 THEN runs[j][1] ELSE runs[j][2]), k % 4)]

HeaderCells(db, head, runs) ==
    WordCells(Addr(OffDirBase), db) @@ WordCells(Addr(OffPsHead), head)
      @@ WordCells(Addr(OffRuns), Addr(Len(runs)))
      @@ WordCells(Addr(OffRuns + 4), Addr(0))
      @@ RunCells(runs)

RunDecls == (0 .. MaxPageIndex) \X (0 .. MaxPageCount)

RECURSIVE DeclPages(_, _)
\* pages of run data stored in the file for the first k declared runs
DeclPages(runs, k) ==
    IF k = 0 THEN 0 ELSE DeclPages(runs, k - 1) + runs[k][2]

\* size of the image of a run table with t bytes after the run data
ImageSize(runs, t) == AAdd(<<1 + DeclPages(runs, Len(runs)), 0>>, t)

DeclStart(runs, k) == <<runs[k][1], 0>>

DeclEnd(runs, k) == <<runs[k][1] + runs[k][2], 0>>

\* the extent-table invariant: ascending by physical start, non-overlapping
WellFormed(runs) ==
    \A i, j \in 1 .. Len(runs) : i < j => ALe(DeclEnd(runs, i), DeclStart(runs, j))

Reversed(runs) == [k \in 1 .. Len(runs) |-> runs[Len(runs) + 1 - k]]

\* the headers: every well-formed run table, and every table that lists
\* the runs of a well-formed one in descending order
RunTables ==
    {t \in UNION {[1 .. n -> RunDecls] : n \in 0 .. MaxRuns} :
        WellFormed(t) \/ WellFormed(Reversed(t))}

InExtent(runs, k, p) == ALe(DeclStart(runs, k), p) /\ ALt(p, DeclEnd(runs, k))

Covered(runs, p) == \E k \in 1 .. Len(runs) : InExtent(runs, k, p)

Trailing == {0, PageSize}

RawSizes == {<<3, 0>>, <<3, 5>>}

NoProbe == <<NoOff, 0>>

NoScn == [va |-> <<0, 0>>]

Idle ==
    /\ pc = "idle" /\ next_ps = <<0, 0>> /\ ret = <<>>
    /\ raw = <<>> /\ cfpos = <<0, 0>> /\ ri = 0 /\ pi = 0

\* a freshly opened RawDump(path, archclass)
OpenRaw(a, c, size) ==
    /\ kind = "raw" /\ arch = a /\ cells = c /\ fsize = size
    /\ decl = <<>> /\ ranges = <<>>
    /\ dirbase = <<0, 0>> /\ process_head = <<0, 0>>
    /\ filepos = <<0, 0>>

\* a freshly opened CrashDump(path, archclass): the header has been read
OpenCrash(a, c, size, runs) ==
    /\ kind = "crash" /\ arch = a /\ cells = c /\ fsize = size
    /\ decl = runs
    /\ dirbase = HeaderU32(c, OffDirBase)
    /\ process_head = HeaderU32(c, OffPsHead)
    /\ ranges = CrashRanges(c)
    /\ filepos = Addr(FileReadOf(size, <<0, 0>>, HeaderSize).n)

NoRes == [op |-> "none"]

(***************************************************************************)
(* dump.read(pos, length) called by a client.                              *)
(***************************************************************************)
ReadPositions ==
    {<<-1, 4095>>} \cup ((0 .. MaxPageIndex + MaxPageCount) \X {0, 4095})

Lengths == {4, PageSize}

Read(P, L) ==
    \E pos \in P, length \in L :
        LET r == DumpRead(kind, ranges, fsize, filepos, pos, length)
        IN  /\ pc = "idle"
            /\ filepos' = r.fp
            /\ res' = [op |-> "read", pos |-> pos, length |-> length,
                       from |-> IF probe = NoProbe THEN NoOff ELSE filepos,
                       exc |-> r.exc, off |-> r.off, n |-> r.n]
            /\ probeOut' = IF <<pos, length>> = probe /\ probeOut = NoRes
                           THEN res' ELSE probeOut
            /\ UNCHANGED <<kind, arch, cells, fsize, decl, scn, dirbase,
                           process_head, ranges, probe, pc, next_ps, ret,
                           raw, cfpos, ri, pi>>

ReadAny == Read(ReadPositions, {4})

InitRead ==
    /\ \/ \E size \in RawSizes : OpenRaw("x86", <<>>, size)
       \/ \E runs \in RunTables, t \in Trailing :
            OpenCrash("x86", HeaderCells(<<0, 0>>, <<0, 0>>, runs),
                      ImageSize(runs, t), runs)
    /\ scn = NoScn /\ res = NoRes /\ probe = NoProbe /\ probeOut = NoRes
    /\ Idle

NextRead == ReadAny

SpecRead == InitRead /\ [][NextRead]_vars

(***************************************************************************)
(* C1: CrashDump.read raises OutsideRangesException, and reads nothing,    *)
(* for every position that no extent of a sorted, non-overlapping extent   *)
(* table covers (below the first extent, in a gap, beyond the last one).   *)
(* Stated for tables that have at least one run and no empty run.          *)
(***************************************************************************)
C1_UncoveredReadRaises ==
    (res.op = "read" /\ kind = "crash" /\ Len(decl) > 0 /\ WellFormed(decl)
        /\ (\A k \in 1 .. Len(decl) : decl[k][2] > 0)
        /\ ~Covered(decl, res.pos))
    => (res.exc = "OutsideRangesException" /\ res.off = NoOff)

(***************************************************************************)
(* C2: with runs sorted and non-overlapping, a read at a physical address  *)
(* p inside run k seeks to 4096 + (bytes of the runs declared before k)    *)
(* + (p - pageIndex_k * 4096), also when p is the end of the run before.   *)
(***************************************************************************)
C2_ExtentOffset ==
    (res.op = "read" /\ kind = "crash" /\ WellFormed(decl))
    => \A k \in 1 .. Len(decl) :
          InExtent(decl, k, res.pos)
          => /\ res.exc = "none"
             /\ AInt(res.off) = 4096 + DeclPages(decl, k - 1) * 4096
                                  + (AInt(res.pos) - decl[k][1] * 4096)

C2_Witness ==
    /\ res.op = "read" /\ kind = "crash" /\ WellFormed(decl)
    /\ \E k \in 2 .. Len(decl) :
          /\ decl[k - 1][2] > 0
          /\ res.pos = DeclStart(decl, k)
          /\ res.pos = DeclEnd(decl, k - 1)
          /\ InExtent(decl, k, res.pos)
          /\ AInt(res.off) = 4096 + DeclPages(decl, k - 1) * 4096

(***************************************************************************)
(* Reads repeated after other reads: the first outcome of read(probe) is   *)
(* kept in probeOut and compared with every later outcome of read(probe).  *)
(***************************************************************************)
DetTables ==
    {<<>>} \cup {t \in RunTables :
                   /\ Len(t) = MaxRuns /\ WellFormed(t)
                   /\ \A k \in 1 .. Len(t) : t[k][2] > 0}

DetPositions == {<<-1, 4095>>, <<0, 0>>, <<1, 4095>>, <<3, 0>>}

ReadProbe == Read(DetPositions, Lengths)

InitDet ==
    /\ \/ \E size \in RawSizes : OpenRaw("x86", <<>>, size)
       \/ \E runs \in DetTables, t \in Trailing :
            OpenCrash("x86", HeaderCells(<<0, 0>>, <<0, 0>>, runs),
                      ImageSize(runs, t), runs)
    /\ scn = NoScn /\ res = NoRes /\ probeOut = NoRes
    /\ probe \in DetPositions \X Lengths
    /\ Idle

NextDet == ReadProbe

SpecDet == InitDet /\ [][NextDet]_vars

\* what a caller observes of a read: the exception, or the bytes returned
\* (their count, where they come from, and the first eight of them)
Outcome(r) ==
    [exc |-> r.exc, n |-> r.n, off |-> r.off,
     data |-> [i \in 0 .. Min(r.n, 8) - 1 |-> FileByte(AAdd(r.off, i))]]

(***************************************************************************)
(* C8: for RawDump and CrashDump the outcome of read(pos, len) (bytes or   *)
(* exception) is the same whatever reads were made before it, and so       *)
(* wherever the file cursor stood.                                         *)
(***************************************************************************)
C8_ReadDeterministic ==
    (res.op = "read" /\ <<res.pos, res.length>> = probe /\ probeOut # NoRes)
    => Outcome(res) = Outcome(probeOut)

C8_Witness ==
    /\ res.op = "read" /\ <<res.pos, res.length>> = probe /\ probeOut # NoRes
    /\ res.from # probeOut.from
    /\ res.exc = "none" /\ res.n > 0
    /\ Outcome(res) = Outcome(probeOut)

(***************************************************************************)
(* Images holding page tables.  The tables are laid out in physical        *)
(* memory; a raw image stores physical address p at offset p, a crash      *)
(* image stores it inside the data of the run that covers it.              *)
(***************************************************************************)
FirstCover(runs, p) ==
    CHOOSE k \in 1 .. Len(runs) :
        InExtent(runs, k, p) /\ \A j \in 1 .. k - 1 : ~InExtent(runs, j, p)

PhysToFile(k, runs, p) ==
    IF k = "raw" THEN p
    ELSE LET j == FirstCover(runs, p)
         IN  APlus(<<1 + DeclPages(runs, j - 1), 0>>, AMinus(p, DeclStart(runs, j)))

\* the file cells of the physical cells pcs that the image stores
PlacePhys(k, runs, pcs) ==
    LET dom  == {p \in DOMAIN pcs : k = "raw" \/ Covered(runs, p)}
        offs == {PhysToFile(k, runs, p) : p \in dom}
    IN  [o \in offs |-> pcs[CHOOSE p \in dom : PhysToFile(k, runs, p) = o]]

\* a two-level table mapping the page of s.va to page s.p; the flag bits of
\* the two entries are s.fl
TablesX86(s) ==
    LET pdi == s.va[1] \div 1024
        pti == s.va[1] % 1024
    IN  WordCells(AAdd(s.db, pdi * 4), <<s.t1[1], s.fl[1]>>)
          @@ WordCells(AAdd(s.t1, pti * 4), <<s.p, s.fl[2]>>)

\* a three-level PAE table mapping the page of s.va to page s.p; the high
\* dword of every 8-byte entry is s.hi
TablesPAE(s) ==
    LET pdpi == s.va[1] \div 262144
        pdi  == (s.va[1] \div 512) % 512
        pti  == s.va[1] % 512
    IN  WordCells(AAdd(s.db, pdpi * 8), <<s.t1[1], s.fl[1]>>)
          @@ WordCells(AAdd(s.db, pdpi * 8 + 4), s.hi)
          @@ WordCells(AAdd(s.t1, pdi * 8), <<s.t2[1], s.fl[2]>>)
          @@ WordCells(AAdd(s.t1, pdi * 8 + 4), s.hi)
          @@ WordCells(AAdd(s.t2, pti * 8), <<s.p, s.fl[3]>>)
          @@ WordCells(AAdd(s.t2, pti * 8 + 4), s.hi)

Tables(a, s) == IF a = "x86" THEN TablesX86(s) ELSE TablesPAE(s)

\* 0x0, 0xfff, 0x00401abc, 0x80200b70, 0xbfe010b8, 0xffffffff
VtopVaddrs == {<<0, 0>>, <<0, 4095>>, <<1025, 2748>>, <<524800, 2928>>,
               <<785921, 184>>, <<1048575, 4095>>}

\* flag bits of the entries of the three levels: none; present and others;
\* all twelve set on the first and present clear on the others
FlagSets == {<<0, 0, 0>>, <<1, 103, 4095>>, <<4095, 4094, 2>>}

\* page bases 0x0, 0x5000, 0xfffff000, as page numbers
PageBases == {0, 5, 1048575}

\* high dwords of PAE entries: 0x0, 0x8000000f
HighDwords == {<<0, 0>>, <<524288, 15>>}

RawLayouts == {[db |-> <<0, 0>>, t1 |-> <<1, 0>>, t2 |-> <<2, 0>>]}

CrashLayouts == {[db |-> <<1, 0>>, t1 |-> <<3, 0>>, t2 |-> <<2, 0>>],
                 [db |-> <<1, 0>>, t1 |-> <<2, 0>>, t2 |-> <<3, 0>>]}

VtopTables == {<< <<0, 4>> >>, << <<1, 3>> >>, << <<1, 1>>, <<3, 1>> >>}

Scenarios(a, layouts) ==
    {[va |-> va, db |-> l.db, t1 |-> l.t1, t2 |-> l.t2, p |-> pb, fl |-> fl,
      hi |-> hi] :
        va \in VtopVaddrs, l \in layouts, pb \in PageBases, fl \in FlagSets,
        hi \in IF a = "x86" THEN {<<0, 0>>} ELSE HighDwords}

\* whether the image holds the four bytes at physical address p
Stored(p) ==
    IF kind = "raw" THEN p[1] >= 0 /\ ALe(AAdd(p, 4), fsize)
    ELSE Covered(decl, p) /\ Covered(decl, AAdd(p, 3))

Vtop ==
    \E va \in VtopVaddrs :
        LET r == DumpVtop(arch, kind, ranges, fsize, cells, filepos, dirbase, va)
        IN  /\ pc = "idle"
            /\ filepos' = r.fp
            /\ res' = [op |-> "vtop", va |-> va, exc |-> r.exc,
                       paddr |-> r.paddr, parts |-> r.parts,
                       reads |-> r.reads]
            /\ UNCHANGED <<kind, arch, cells, fsize, decl, scn, dirbase,
                           process_head, ranges, probe, probeOut, pc, next_ps,
                           ret, raw, cfpos, ri, pi>>

InitVtop ==
    /\ \E a \in {"x86", "pae"} :
         \/ \E s \in Scenarios(a, RawLayouts), size \in RawSizes :
              /\ OpenRaw(a, PlacePhys("raw", <<>>, Tables(a, s)), size)
              /\ scn = s
         \/ \E s \in Scenarios(a, CrashLayouts), runs \in VtopTables,
               t \in Trailing :
              /\ OpenCrash(a, HeaderCells(s.db, <<0, 0>>, runs)
                                @@ PlacePhys("crash", runs, Tables(a, s)),
                           ImageSize(runs, t), runs)
              /\ scn = s
    /\ res = NoRes /\ probe = NoProbe /\ probeOut = NoRes
    /\ Idle

NextVtop == Vtop

SpecVtop == InitVtop /\ [][NextVtop]_vars

(***************************************************************************)
(* C3: ArchX86.vtop splits vaddr as pdi = vaddr >> 22, pti = (vaddr >> 12) *)
(* & 0x3ff, offset = vaddr & 0xfff (so that pdi * 2^22 + pti * 2^12 +      *)
(* offset = vaddr), reads the 4-byte entries at dirbase + pdi*4 and at     *)
(* T + pti*4 (T the first entry masked with 0xfffff000) and returns        *)
(* P + offset (P the second entry masked), whatever the flag bits of the   *)
(* two entries are.  With vaddr = <<pg, off>>: vaddr >> 22 is pg \div 1024 *)
(* and (vaddr >> 12) & 0x3ff is pg % 1024.                                 *)
(***************************************************************************)
C3_VtopX86 ==
    LET va  == res.va
        pdi == va[1] \div 1024
        pti == va[1] % 1024
    IN  (/\ res.op = "vtop" /\ arch = "x86"
         /\ pdi = scn.va[1] \div 1024 /\ pti = scn.va[1] % 1024
         /\ Stored(AAdd(scn.db, pdi * 4)) /\ Stored(AAdd(scn.t1, pti * 4)))
        => /\ res.parts = [pdi |-> pdi, pti |-> pti, offs |-> va[2]]
           /\ <<res.parts.pdi * 1024 + res.parts.pti, res.parts.offs>> = va
           /\ res.exc = "none"
           /\ res.reads = <<AAdd(scn.db, pdi * 4), AAdd(scn.t1, pti * 4)>>
           /\ res.paddr = <<scn.p, va[2]>>

C3_Witness ==
    /\ res.op = "vtop" /\ arch = "x86" /\ res.exc = "none"
    /\ res.va = scn.va /\ res.va = <<785921, 184>>
    /\ scn.fl = <<4095, 4094, 2>> /\ scn.p = 5
    /\ res.paddr = <<5, 184>>
    /\ kind = "crash" /\ Len(decl) = 2

(***************************************************************************)
(* C4: ArchX86PAE.vtop splits vaddr into pdpi (2 bits), pdi (9), pti (9)   *)
(* and offset (12), which put together again give vaddr, walks three       *)
(* levels of 8-byte entries at dirbase + pdpi*8, base1 + pdi*8, base2 +    *)
(* pti*8, takes from each entry the low dword masked with 0xfffff000 (the  *)
(* high dword and the flag bits are ignored) and returns the third base    *)
(* plus offset.                                                            *)
(***************************************************************************)
C4_VtopPAE ==
    LET va   == res.va
        pdpi == va[1] \div 262144
        pdi  == (va[1] \div 512) % 512
        pti  == va[1] % 512
    IN  (/\ res.op = "vtop" /\ arch = "pae"
         /\ pdpi = scn.va[1] \div 262144
         /\ pdi = (scn.va[1] \div 512) % 512
         /\ pti = scn.va[1] % 512
         /\ Stored(AAdd(scn.db, pdpi * 8)) /\ Stored(AAdd(scn.t1, pdi * 8))
         /\ Stored(AAdd(scn.t2, pti * 8)))
        => /\ res.parts = [pdpi |-> pdpi, pdi |-> pdi, pti |-> pti,
                           offs |-> va[2]]
           /\ <<res.parts.pdpi * 262144 + res.parts.pdi * 512 + res.parts.pti,
                res.parts.offs>> = va
           /\ res.exc = "none"
           /\ res.reads = <<AAdd(scn.db, pdpi * 8), AAdd(scn.t1, pdi * 8),
                            AAdd(scn.t2, pti * 8)>>
           /\ res.paddr = <<scn.p, va[2]>>

C4_Witness ==
    /\ res.op = "vtop" /\ arch = "pae" /\ res.exc = "none"
    /\ res.va = scn.va /\ res.va = <<785921, 184>>
    /\ scn.fl = <<1, 103, 4095>> /\ scn.hi = <<524288, 15>>
    /\ scn.p = 1048575
    /\ res.paddr = <<1048575, 184>>
    /\ Len(res.reads) = 3

\* whether physical position p lies outside what the image can give
Unreadable(p) ==
    IF kind = "raw" THEN p[1] < 0 \/ ALe(fsize, p) ELSE ~Covered(decl, p)

\* whether the memory source answers read(p, 4) with its out-of-range error
SourceRefuses(p) ==
    DumpRead(kind, ranges, fsize, <<0, 0>>, p, 4).exc = "OutsideRangesException"

(***************************************************************************)
(* C5 as claimed: when an entry read of a translation falls outside the    *)
(* readable range of the memory source, vtop fails with an                 *)
(* AddressTranslationError (wrapping the source's error) and returns no    *)
(* address.  Stated for the entry reads that the source does answer with   *)
(* its out-of-range error, which is there to be wrapped.                   *)
(***************************************************************************)
C5_WrappedError ==
    (/\ res.op = "vtop"
     /\ \E i \in 1 .. Len(res.reads) :
           Unreadable(res.reads[i]) /\ SourceRefuses(res.reads[i]))
    => (res.exc = "AddressTranslationError" /\ res.paddr = NoOff)

(***************************************************************************)
(* C5 as amended: when the memory source answers an entry read of a        *)
(* translation with OutsideRangesException, that read is the last one the  *)
(* translation makes, vtop fails with that same OutsideRangesException,    *)
(* not wrapped in any other error, and returns no address.                 *)
(***************************************************************************)
C5_ErrorPropagates ==
    res.op = "vtop"
    => \A i \in 1 .. Len(res.reads) :
          SourceRefuses(res.reads[i])
          => /\ i = Len(res.reads)
             /\ res.exc = "OutsideRangesException"
             /\ res.paddr = NoOff

C5_Witness ==
    /\ res.op = "vtop" /\ kind = "crash"
    /\ Len(res.reads) >= 2
    /\ SourceRefuses(res.reads[Len(res.reads)])
    /\ res.exc = "OutsideRangesException" /\ res.paddr = NoOff

(***************************************************************************)
(* pslist(dump), one action for the head read, one per loop iteration and  *)
(* one for the return.  pc: "idle" -> "loop" -> "done" | "failed".         *)
(***************************************************************************)
\* iterations the model follows on a list that never comes back to its head
MaxWalk == MaxProcs + 2

\* the first exception raised by the translation, the read or the decode
FirstExc(t, r, last) ==
    IF t.exc # "none" THEN t.exc ELSE IF r.exc # "none" THEN r.exc ELSE last

\* the cursor after a translation t followed, if it succeeded, by the read r
CursorAfter(t, r) == IF t.exc # "none" THEN t.fp ELSE r.fp

\* next_ps = ListEntry(dump.read(dump.vtop(pslist_head), 8)) for the
\* translation t, the read r and their outcome exc
HeadEntry(t, r, exc) ==
    /\ filepos' = CursorAfter(t, r)
    /\ IF exc = "none"
       THEN /\ pc' = "loop"
            /\ next_ps' = UnpackU32Of(cells, [off |-> r.off, n |-> 4])
            /\ res' = [op |-> "head", exc |-> "none", at |-> t.paddr]
       ELSE /\ pc' = "failed"
            /\ next_ps' = next_ps
            /\ res' = [op |-> "pslist", exc |-> exc]

HeadRead(t, r) ==
    HeadEntry(t, r, FirstExc(t, r, IF r.n # 8 THEN "struct.error" ELSE "none"))

HeadAt(t) == HeadRead(t, DumpRead(kind, ranges, fsize, t.fp, t.paddr, 8))

PslistStart ==
    /\ pc = "idle"
    /\ HeadAt(DumpVtop(arch, kind, ranges, fsize, cells, filepos, dirbase,
                       process_head))
    /\ ret' = <<>>
    /\ UNCHANGED <<kind, arch, cells, fsize, decl, scn, dirbase, process_head,
                   ranges, probe, probeOut, raw, cfpos, ri, pi>>

\* one iteration for the translation t, the read r, the record ps and their
\* outcome exc
StepEntry(t, r, ps, exc) ==
    /\ filepos' = CursorAfter(t, r)
    /\ res' = [op |-> "step", link |-> next_ps, at |-> t.paddr,
               off |-> IF t.exc = "none" THEN r.off ELSE NoOff,
               length |-> RecordSize, exc |-> exc]
    /\ IF exc = "none"
       THEN /\ ret' = Append(ret, ps)
            /\ next_ps' = ps.flink
            /\ pc' = "loop"
       ELSE /\ ret' = ret
            /\ next_ps' = next_ps
            /\ pc' = "failed"

StepDecode(t, r, ps) == StepEntry(t, r, ps, FirstExc(t, r, ps.exc))

StepRead(t, r) ==
    StepDecode(t, r, EProcess(cells, [off |-> r.off, n |-> r.n],
                              AAdd(next_ps, -ListOff)))

StepAt(t) == StepRead(t, DumpRead(kind, ranges, fsize, t.fp, t.paddr, RecordSize))

PslistStep ==
    /\ pc = "loop" /\ ~LoopEnds(next_ps, process_head) /\ Len(ret) < MaxWalk
    /\ StepAt(WalkReadPos(arch, kind, ranges, fsize, cells, filepos, dirbase,
                          next_ps))
    /\ UNCHANGED <<kind, arch, cells, fsize, decl, scn, dirbase, process_head,
                   ranges, probe, probeOut, raw, cfpos, ri, pi>>

PslistReturn ==
    /\ pc = "loop" /\ LoopEnds(next_ps, process_head)
    /\ pc' = "done"
    /\ res' = [op |-> "pslist", exc |-> "none"]
    /\ UNCHANGED <<kind, arch, cells, fsize, decl, scn, filepos, dirbase,
                   process_head, ranges, probe, probeOut, next_ps, ret, raw,
                   cfpos, ri, pi>>

(***************************************************************************)
(* Images holding a process list.  Virtual pages are mapped to frames by   *)
(* page tables; the list head and the records are stored through that      *)
(* mapping.  Record i of s.n lies at offset s.roff of virtual page         *)
(* ListVpg + 2i and may run into the page after it, which is mapped to the *)
(* next frame, or (s.split) to a frame elsewhere.                          *)
(***************************************************************************)
\* 0x80500, a kernel-space page
ListVpg == 128 * 4096 + 1280

TopFrame == 3 * MaxProcs + 5

HeadVaddr(k) == IF k = "raw" THEN <<0, 0>> ELSE <<ListVpg, 64>>

RecBase(s, i) == <<ListVpg + 2 * i, s.roff>>

RecNode(s, i) == AAdd(RecBase(s, i), ListOff)

\* the records in forward-link order
Order(s) == [j \in 1 .. s.n |-> IF s.rev THEN s.n + 1 - j ELSE j]

\* the forward link stored in the j-th node of the chain (0 is the head)
LinkAfter(k, s, j) ==
    IF j < s.n THEN RecNode(s, Order(s)[j + 1])
    ELSE IF s.tail = "head" \/ s.n = 0 THEN HeadVaddr(k)
    ELSE RecNode(s, Order(s)[1])

LinkBefore(k, s, j) ==
    IF j = 0 THEN (IF s.n = 0 THEN HeadVaddr(k) ELSE RecNode(s, Order(s)[s.n]))
    ELSE IF j = 1 THEN HeadVaddr(k) ELSE RecNode(s, Order(s)[j - 1])

\* virtual page -> frame
FrameOf(k, s, vpg) ==
    IF vpg = HeadVaddr(k)[1] THEN 4
    ELSE LET i == (vpg - ListVpg) \div 2
         IN  IF (vpg - ListVpg) % 2 = 0 THEN 3 + 2 * i
             ELSE IF s.split THEN 2 * MaxProcs + 4 + i ELSE 4 + 2 * i

DirFrame(k) == IF k = "raw" THEN 0 ELSE 1

\* the word v stored at physical address pa of the image
PhysWord(k, runs, pa, v) == WordCells(PhysToFile(k, runs, pa), v)

\* the byte b stored at virtual address va of the image
VirtByte(k, s, runs, va, b) ==
    PhysToFile(k, runs, <<FrameOf(k, s, va[1]), va[2]>>) :> b

VirtWord(k, s, runs, va, v) ==
    VirtByte(k, s, runs, va, ByteOf(v, 0))
      @@ VirtByte(k, s, runs, AAdd(va, 1), ByteOf(v, 1))
      @@ VirtByte(k, s, runs, AAdd(va, 2), ByteOf(v, 2))
      @@ VirtByte(k, s, runs, AAdd(va, 3), ByteOf(v, 3))

\* the page-table entries that map vpg
MapEntries(a, k, s, runs, vpg) ==
    LET db == <<DirFrame(k), 0>>
    IN  IF a = "x86"
        THEN PhysWord(k, runs, AAdd(db, (vpg \div 1024) * 4), <<2, 1>>)
               @@ PhysWord(k, runs, AAdd(<<2, 0>>, (vpg % 1024) * 4),
                           <<FrameOf(k, s, vpg), 99>>)
        ELSE PhysWord(k, runs, AAdd(db, (vpg \div 262144) * 8), <<2, 1>>)
               @@ PhysWord(k, runs, AAdd(<<2, 0>>, ((vpg \div 512) % 512) * 8), <<3, 99>>)
               @@ PhysWord(k, runs, AAdd(<<3, 0>>, (vpg % 512) * 8),
                           <<FrameOf(k, s, vpg), 99>>)

ProcName(i) == <<112, 48 + i>> \o [j \in 1 .. NameLen - 2 |-> 0]

RECURSIVE NameCells(_, _, _, _, _, _)
NameCells(k, s, runs, b, name, x) ==
    IF x > NameLen THEN VirtByte(k, s, runs, AAdd(b, NameOff), name[1])
    ELSE VirtByte(k, s, runs, AAdd(b, NameOff + x - 1), name[x])
           @@ NameCells(k, s, runs, b, name, x + 1)

\* the j-th record of the chain and the entries that map its two pages
RecordCellsAt(a, k, s, runs, j) ==
    LET i == Order(s)[j]
        b == RecBase(s, i)
    IN  VirtWord(k, s, runs, AAdd(b, ListOff), LinkAfter(k, s, j))
          @@ VirtWord(k, s, runs, AAdd(b, ListOff + 4), LinkBefore(k, s, j))
          @@ VirtWord(k, s, runs, AAdd(b, PidOff), Addr(4 * i))
          @@ VirtWord(k, s, runs, AAdd(b, CreateOff), <<j, 0>>)
          @@ VirtWord(k, s, runs, AAdd(b, CreateOff + 4), <<7000, 0>>)
          @@ VirtWord(k, s, runs, AAdd(b, ExitOff), <<0, 0>>)
          @@ VirtWord(k, s, runs, AAdd(b, ExitOff + 4), <<0, 0>>)
          @@ NameCells(k, s, runs, b, ProcName(i), 1)
          @@ MapEntries(a, k, s, runs, b[1])
          @@ MapEntries(a, k, s, runs, b[1] + 1)

RECURSIVE ListCells(_, _, _, _, _)
\* the file cells of the list: the head node, the records j .. s.n and the
\* page tables
ListCells(a, k, s, runs, j) ==
    IF j > s.n
    THEN VirtWord(k, s, runs, HeadVaddr(k), LinkAfter(k, s, 0))
           @@ VirtWord(k, s, runs, AAdd(HeadVaddr(k), 4), LinkBefore(k, s, 0))
           @@ MapEntries(a, k, s, runs, HeadVaddr(k)[1])
    ELSE RecordCellsAt(a, k, s, runs, j) @@ ListCells(a, k, s, runs, j + 1)

ListScenarios ==
    [n : 0 .. MaxProcs, roff : {0, 256, 3968}, split : {FALSE},
     rev : BOOLEAN, tail : {"head", "loop"}]
      \cup [n : 1 .. MaxProcs, roff : {3968}, split : {TRUE},
            rev : BOOLEAN, tail : {"head", "loop"}]

WalkTables == {<< <<1, TopFrame - 1>> >>, << <<1, 3>>, <<4, TopFrame - 4>> >>}

InitWalk ==
    /\ \E a \in {"x86", "pae"}, s \in ListScenarios :
         \/ /\ OpenRaw(a, ListCells(a, "raw", s, <<>>, 1), <<TopFrame, 0>>)
            /\ scn = s
         \/ \E runs \in WalkTables :
              /\ OpenCrash(a, HeaderCells(<<DirFrame("crash"), 0>>,
                                          HeadVaddr("crash"), runs)
                                @@ ListCells(a, "crash", s, runs, 1),
                           ImageSize(runs, 0), runs)
              /\ scn = s
    /\ res = NoRes /\ probe = NoProbe /\ probeOut = NoRes
    /\ Idle

NextWalk == PslistStart \/ PslistStep \/ PslistReturn

SpecWalk == InitWalk /\ [][NextWalk]_vars

\* the base addresses of the records returned
RetBases == [j \in 1 .. Len(ret) |-> ret[j].base_addr]

\* a list that chains back to its head and whose records each lie in
\* consecutive frames
WellFormedList == scn.tail = "head" /\ ~scn.split

Translate(v) ==
    DumpVtop(arch, kind, ranges, fsize, cells, <<0, 0>>, dirbase, v)

(***************************************************************************)
(* C10 as claimed: every iteration of the walk translates the forward link *)
(* itself and reads the record at translate(flink) - 0xb8, also for links  *)
(* whose page offset is below 0xb8.                                        *)
(***************************************************************************)
C10_ReadsBeforeTranslated ==
    (res.op = "step" /\ res.at # NoOff /\ Translate(res.link).exc = "none")
    => res.at = AAdd(Translate(res.link).paddr, -ListOff)

(***************************************************************************)
(* C10 as amended: every iteration of the walk translates flink - 0xb8,    *)
(* the virtual base of the record, and reads the 0x2d8-byte block at       *)
(* translate(flink - 0xb8); that is translate(flink) - 0xb8 for the links  *)
(* whose page offset is at least 0xb8.  The next iteration uses the        *)
(* forward link found at offset 0xb8 of the block read.                    *)
(***************************************************************************)
C10_ReadsAtTranslatedBase ==
    res.op = "step"
    => LET t == Translate(AAdd(res.link, -ListOff))
           u == Translate(res.link)
       IN  /\ res.at = t.paddr
           /\ res.length = 728
           /\ t.exc # "none" => res.exc = t.exc
           /\ (t.exc = "none" /\ u.exc = "none" /\ res.link[2] >= 184)
                => res.at = AAdd(u.paddr, -184)
           /\ res.exc = "none"
                => /\ ret[Len(ret)].base_addr = AAdd(res.link, -184)
                   /\ next_ps = UnpackU32Of(cells, [off |-> AAdd(res.off, 184),
                                                   n |-> 4])

C10_Witness ==
    /\ res.op = "step" /\ scn.split /\ res.link[2] < 184
    /\ res.at = Translate(AAdd(res.link, -ListOff)).paddr
    /\ res.at # NoOff
    /\ Translate(res.link).exc = "none"
    /\ res.at # AAdd(Translate(res.link).paddr, -ListOff)

(***************************************************************************)
(* Decoding one record: EProcess(dump.read(pos, EProcess.fullsize), pos)   *)
(* on images whose record at scn.pos has the image-name field scn.field.   *)
(***************************************************************************)
NameBytes == {0, 65, 122, 200}

NameFields ==
    {f \o [j \in 1 .. NameLen - MaxName |-> 0] : f \in [1 .. MaxName -> NameBytes]}

\* the high dword of the creation time
CreateHighs == {<<7000, 0>>, <<1048575, 4095>>}

RecordCells(pos, field, hi) ==
    [o \in {AAdd(pos, NameOff + i - 1) : i \in 1 .. NameLen} |->
        field[AInt(AMinus(o, pos)) - NameOff + 1]]
      @@ WordCells(AAdd(pos, CreateOff), <<1, 0>>)
      @@ WordCells(AAdd(pos, CreateOff + 4), hi)
      @@ WordCells(AAdd(pos, ExitOff), <<0, 0>>)
      @@ WordCells(AAdd(pos, ExitOff + 4), <<0, 0>>)

DecodeRecord ==
    /\ pc = "idle"
    /\ LET r   == DumpRead(kind, ranges, fsize, filepos, scn.pos, RecordSize)
           ps  == EProcess(cells, [off |-> r.off, n |-> r.n], scn.pos)
           exc == IF r.exc # "none" THEN r.exc ELSE ps.exc
       IN  /\ filepos' = r.fp
           /\ res' = [op |-> "decode", exc |-> exc,
                      image_name |-> IF exc = "none" THEN ps.image_name ELSE <<>>]
    /\ pc' = "decoded"
    /\ UNCHANGED <<kind, arch, cells, fsize, decl, scn, dirbase, process_head,
                   ranges, probe, probeOut, next_ps, ret, raw, cfpos, ri, pi>>

InitName ==
    /\ \E field \in NameFields, hi \in CreateHighs, pos \in {<<1, 0>>, <<1, 300>>} :
         /\ OpenRaw("x86", RecordCells(pos, field, hi), <<3, 0>>)
         /\ scn = [field |-> field, pos |-> pos, hi |-> hi]
    /\ res = NoRes /\ probe = NoProbe /\ probeOut = NoRes
    /\ Idle

NextName == DecodeRecord

SpecName == InitName /\ [][NextName]_vars

RECURSIVE TrailingTrimmed(_)
\* b without the NUL bytes at its end
TrailingTrimmed(b) ==
    IF b # <<>> /\ b[Len(b)] = 0
    THEN TrailingTrimmed(SubSeq(b, 1, Len(b) - 1)) ELSE b

NonAscii(b) == \E i \in 1 .. Len(b) : b[i] > 127

(***************************************************************************)
(* C9 as claimed: the decode of the 15-byte image-name field trims only    *)
(* the trailing NUL bytes and keeps the bytes before them unchanged.       *)
(***************************************************************************)
C9_TrimsTrailingOnly ==
    (res.op = "decode" /\ res.exc = "none")
    => res.image_name = TrailingTrimmed(scn.field)

(***************************************************************************)
(* C9 as amended: the decode of the 15-byte image-name field removes every *)
(* NUL byte, trailing or embedded, and decodes the bytes left, in order,   *)
(* as ASCII; the name is the field without its trailing NULs exactly when  *)
(* no NUL is embedded.  The whole record decode fails with                 *)
(* UnicodeDecodeError when the field holds a non-ASCII byte.               *)
(***************************************************************************)
C9_RemovesEveryNul ==
    res.op = "decode"
    => /\ NonAscii(scn.field) => res.exc = "UnicodeDecodeError"
       /\ ~NonAscii(scn.field) => res.exc \in {"none", "OverflowError"}
       /\ res.exc = "none"
            => /\ \A i \in 1 .. Len(res.image_name) : res.image_name[i] # 0
               /\ res.image_name = SelectSeq(scn.field, LAMBDA x : x # 0)
               /\ (res.image_name = TrailingTrimmed(scn.field))
                    <=> (\A i \in 1 .. Len(TrailingTrimmed(scn.field)) :
                            scn.field[i] # 0)

C9_Witness ==
    /\ res.op = "decode" /\ res.exc = "none"
    /\ scn.field[1] = 65 /\ scn.field[2] = 0 /\ scn.field[3] = 122
    /\ res.image_name = <<65, 122>>

(***************************************************************************)
(* crash_to_raw(crash, raw): one action per page written.  raw is the list *)
(* of the chunks written: a page of zeros, or the bytes crash.read         *)
(* returned (n bytes of the dump file from offset off).                    *)
(***************************************************************************)
\* the test of the padding loop: fpos < saddr
NeedsPad_never(fpos, saddr) == FALSE

NeedsPad(fpos, saddr) == ALt(fpos, saddr)

\* length >> 12
PagesOf(length) == length[1]

CrashToRawBegin ==
    /\ pc = "idle" /\ kind = "crash"
    /\ pc' = "conv" /\ raw' = <<>> /\ cfpos' = <<0, 0>> /\ ri' = 1 /\ pi' = 0
    /\ UNCHANGED <<kind, arch, cells, fsize, decl, scn, filepos, dirbase,
                   process_head, ranges, res, probe, probeOut, next_ps, ret>>

CrashToRawPad ==
    /\ pc = "conv" /\ ri <= Len(ranges)
    /\ NeedsPad(cfpos, ranges[ri].saddr)
    /\ raw' = Append(raw, [zero |-> TRUE, off |-> NoOff, n |-> PageSize])
    /\ cfpos' = AAdd(cfpos, PageSize)
    /\ UNCHANGED <<kind, arch, cells, fsize, decl, scn, filepos, dirbase,
                   process_head, ranges, res, probe, probeOut, pc, next_ps,
                   ret, ri, pi>>

CrashToRawCopy ==
    /\ pc = "conv" /\ ri <= Len(ranges)
    /\ ~NeedsPad(cfpos, ranges[ri].saddr)
    /\ pi < PagesOf(ranges[ri].length)
    /\ LET r == CrashDumpRead(ranges, fsize, filepos,
                              AAdd(ranges[ri].saddr, pi * PageSize), PageSize)
       IN  /\ filepos' = r.fp
           /\ IF r.exc = "none"
              THEN /\ raw' = Append(raw, [zero |-> FALSE, off |-> r.off, n |-> r.n])
                   /\ cfpos' = AAdd(cfpos, PageSize)
                   /\ pi' = pi + 1
                   /\ pc' = "conv"
                   /\ res' = res
              ELSE /\ pc' = "failed"
                   /\ res' = [op |-> "crash_to_raw", exc |-> r.exc]
                   /\ UNCHANGED <<raw, cfpos, pi>>
    /\ UNCHANGED <<kind, arch, cells, fsize, decl, scn, dirbase, process_head,
                   ranges, probe, probeOut, next_ps, ret, ri>>

CrashToRawNextRun ==
    /\ pc = "conv" /\ ri <= Len(ranges)
    /\ ~NeedsPad(cfpos, ranges[ri].saddr)
    /\ pi >= PagesOf(ranges[ri].length)
    /\ ri' = ri + 1 /\ pi' = 0
    /\ UNCHANGED <<kind, arch, cells, fsize, decl, scn, filepos, dirbase,
                   process_head, ranges, res, probe, probeOut, pc, next_ps,
                   ret, raw, cfpos>>

CrashToRawReturn ==
    /\ pc = "conv" /\ ri > Len(ranges)
    /\ pc' = "done"
    /\ res' = [op |-> "crash_to_raw", exc |-> "none"]
    /\ UNCHANGED <<kind, arch, cells, fsize, decl, scn, filepos, dirbase,
                   process_head, ranges, probe, probeOut, next_ps, ret, raw,
                   cfpos, ri, pi>>

InitConv ==
    /\ \E runs \in RunTables, t \in Trailing :
         OpenCrash("x86", HeaderCells(<<0, 0>>, <<0, 0>>, runs),
                   ImageSize(runs, t), runs)
    /\ scn = NoScn /\ res = NoRes /\ probe = NoProbe /\ probeOut = NoRes
    /\ Idle

NextConv ==
    \/ CrashToRawBegin
    \/ CrashToRawPad
    \/ CrashToRawCopy
    \/ CrashToRawNextRun
    \/ CrashToRawReturn

SpecConv == InitConv /\ [][NextConv]_vars

RECURSIVE FlatAt(_, _, _)
\* the byte at offset p of the chunks i.. of the flat image (-1: past its end)
FlatAt(chs, i, p) ==
    IF i > Len(chs) THEN -1
    ELSE IF ALt(p, Addr(chs[i].n))
    THEN (IF chs[i].zero THEN 0 ELSE FileByteOf(cells, AAdd(chs[i].off, AInt(p))))
    ELSE FlatAt(chs, i + 1, AAdd(p, -chs[i].n))

FlatByte(p) == FlatAt(raw, 1, p)

\* the byte CrashDump.read(p, 1) returns (-1: none)
DumpByte(p) ==
    LET r == CrashDumpRead(ranges, fsize, filepos, p, 1)
    IN  IF r.exc = "none" /\ r.n = 1 THEN FileByteOf(cells, r.off) ELSE -1

PhysAddrs == (0 .. MaxPageIndex + MaxPageCount) \X {0, 1, 184, 4095}

BelowLastEnd(p) == \E k \in 1 .. Len(decl) : ALt(p, DeclEnd(decl, k))

(***************************************************************************)
(* C7: after crash_to_raw has converted a CrashDump whose extents are      *)
(* ascending and disjoint, the byte at offset p of the flat image is the   *)
(* byte CrashDump.read returns at p for every p inside an extent, and is   *)
(* zero for every p below the last extent's end that no extent covers.     *)
(***************************************************************************)
C7_FlatRoundTrip ==
    WellFormed(decl)
    => /\ pc # "failed"
       /\ pc = "done"
            => \A p \in PhysAddrs :
                 /\ Covered(decl, p)
                      => (FlatByte(p) = DumpByte(p) /\ FlatByte(p) # -1)
                 /\ (~Covered(decl, p) /\ BelowLastEnd(p)) => FlatByte(p) = 0

C7_Witness ==
    /\ pc = "done" /\ decl = << <<0, 1>>, <<2, 1>> >>
    /\ Len(raw) = 3 /\ raw[2].zero /\ ~raw[3].zero
    /\ FlatByte(<<2, 184>>) = DumpByte(<<2, 184>>)
    /\ FlatByte(<<1, 184>>) = 0

====
